---- MODULE Spec2Model ----
(***************************************************************************)
(* A model of the gift exchange randomizer: gift_randomizer.py builds a    *)
(* directory of participants (from a cleaned CSV file or from the built-in *)
(* dummy data), draws a derangement of it by rejection sampling, and       *)
(* prints or sends one notification per giver.                             *)
(*                                                                         *)
(* Strings.  The only string operations of the program are str.strip(),    *)
(* equality of stripped strings, truthiness and interpolation.  A string   *)
(* is therefore kept as a record [lead, core, trail]: `core` is the text   *)
(* between the outermost non-whitespace characters ("" when there is       *)
(* none), `lead` and `trail` count the whitespace characters before and    *)
(* after it.  "Lorem D. Ipsum  " is [lead |-> 0, core |-> "Lorem D.        *)
(* Ipsum", trail |-> 2].                                                   *)
(***************************************************************************)
EXTENDS Integers, Sequences, FiniteSets, TLC

\* ------------------------------------------------------------------ bounds
\* The largest number of data rows of a CSV file.
MaxRows == 2
\* The largest run of whitespace around a raw CSV cell.
MaxPad == 2

\* ----------------------------------------------------------------- strings
Pad(l, c, t) == [lead |-> l, core |-> c, trail |-> t]

S(c) == Pad(0, c, 0)

\* Python's None
None == [none |-> TRUE]

\* str.strip(): the whitespace on both sides is removed.
Strip(s) == Pad(0, s.core, 0)

\* len(s) == 0, the only falsy string
IsEmptyStr(s) == s.lead = 0 /\ s.core = "" /\ s.trail = 0

\* Python's truthiness of a value that is None or a string
Truthy(v) == v # None /\ ~IsEmptyStr(v)

\* `v or ""`
OrEmpty(v) == IF Truthy(v) THEN v ELSE S("")

\* ------------------------------------------------------------- participant
Fields ==
    <<"section", "email", "name", "wish1", "wish1_desc",
      "wish2", "wish2_desc", "wish3", "wish3_desc">>

Participant(section, email, name, wish1, wish1_desc, wish2, wish2_desc, wish3, wish3_desc) ==
    [section |-> section, email |-> email, name |-> name,
     wish1 |-> wish1, wish1_desc |-> wish1_desc,
     wish2 |-> wish2, wish2_desc |-> wish2_desc,
     wish3 |-> wish3, wish3_desc |-> wish3_desc]

\* The columns load_participants looks up, in the order of Fields.
Columns ==
    <<S("Enter your Section"),
      S("Username"),
      S("Enter your Name (FN, MI, LN)"),
      S("What is your wish #1? (Priority Wish)"),
      S("Describe your wish #1! (Priority Wish)"),
      S("What is your wish #2?"),
      S("Describe your wish #2!"),
      S("What is your wish #3?"),
      S("Describe your wish #3!")>>

\* -------------------------------------------------------- csv.DictReader
\* d[k] = v on an insertion-ordered dict, kept as a sequence of entries.
DictSet(d, k, v) ==
    IF \E i \in 1..Len(d) : d[i].key = k
    THEN [i \in 1..Len(d) |-> IF d[i].key = k THEN [key |-> k, val |-> v] ELSE d[i]]
    ELSE Append(d, [key |-> k, val |-> v])

Min2(a, b) == IF a < b THEN a ELSE b

RECURSIVE ZipInto(_, _, _, _)
\* dict(zip(fieldnames, row)): the first j pairs set in order.
ZipInto(d, fieldnames, row, j) ==
    IF j = 0 THEN d
    ELSE DictSet(ZipInto(d, fieldnames, row, j - 1), fieldnames[j], row[j])

RECURSIVE RestInto(_, _, _, _)
\* for key in fieldnames[lr:]: d[key] = restval (None), up to position j
RestInto(d, fieldnames, lr, j) ==
    IF j <= lr THEN d
    ELSE DictSet(RestInto(d, fieldnames, lr, j - 1), fieldnames[j], None)

\* The dict DictReader yields for one non-blank row.
DictRow(fieldnames, row) ==
    LET lf == Len(fieldnames)
        lr == Len(row)
        d  == ZipInto(<<>>, fieldnames, row, Min2(lf, lr))
    IN  IF lf < lr THEN DictSet(d, None, [rest |-> SubSeq(row, lf + 1, lr)])
        ELSE IF lf > lr THEN RestInto(d, fieldnames, lr, lf)
        ELSE d

\* The rows DictReader yields: the first line is the header, blank lines
\* (rows equal to []) are skipped.
DictReaderRows(lines) ==
    IF Len(lines) = 0 THEN <<>>
    ELSE LET data == SelectSeq(Tail(lines), LAMBDA r : r # <<>>)
         IN  [i \in 1..Len(data) |-> DictRow(lines[1], data[i])]

\* ------------------------------------------------------ load_participants
AttributeError == [error |-> "AttributeError"]

\* get(col) of load_participants, for the dict `row`: the keys are visited
\* in dict order; key.strip() raises AttributeError on the key None.
get(row, col) ==
    LET hits == {i \in 1..Len(row) :
                    row[i].key = None \/ Strip(row[i].key) = Strip(col)}
    IN  IF hits = {} THEN S("")
        ELSE LET i == CHOOSE h \in hits : \A g \in hits : h <= g
             IN  IF row[i].key = None THEN AttributeError
                 ELSE Strip(OrEmpty(row[i].val))

\* Participant(section=get(...), ...) for one row, or the exception raised
\* by the first failing get.
ParticipantOfRow(row) ==
    LET vals == [k \in 1..Len(Columns) |-> get(row, Columns[k])]
    IN  IF \E k \in 1..Len(vals) : vals[k] = AttributeError
        THEN AttributeError
        ELSE Participant(vals[1], vals[2], vals[3], vals[4], vals[5],
                         vals[6], vals[7], vals[8], vals[9])

Ok(v) == [ok |-> TRUE, value |-> v]
Raise(e) == [ok |-> FALSE, error |-> e]

\* load_participants(csv_path): the list of participants, or the exception.
load_participants(file) ==
    IF ~file.exists THEN Raise("FileNotFoundError")
    ELSE LET rows == DictReaderRows(file.lines)
             ps   == [i \in 1..Len(rows) |-> ParticipantOfRow(rows[i])]
         IN  IF \E i \in 1..Len(ps) : ps[i] = AttributeError
             THEN Raise("AttributeError")
             ELSE Ok(ps)

\* ------------------------------------------------------- create_dummy_data
create_dummy_data ==
    << Participant(
           S("BSCS 2-1N"),
           S("example1@example.com"),
           Pad(0, "Lorem D. Ipsum", 2),
           S("Chocolate Box"),
           S("Any brand of assorted chocolates"),
           S("Notebook"),
           S("Preferably A5 size with lined pages"),
           S("Keychain"),
           S("Cute animal designs")),
       Participant(
           S("BSCS 2-1N"),
           S("example2@example.com"),
           S("Ipsum D. Lorem"),
           S("Pen Set"),
           S("Gel pens in various colors"),
           S("Stickers"),
           S("Aesthetic or anime stickers"),
           S("Candy"),
           S("Sour candy preferred")),
       Participant(
           S("BSCS 2-1N"),
           S("example3@example.com"),
           S("Luffy D. Lorem"),
           S("Bookmark"),
           S("Metal or magnetic bookmarks"),
           S("Snacks"),
           S("Any chips or crackers"),
           S("Hair Clips"),
           S("Simple and minimalist design")) >>

\* ------------------------------------------------------------ CSV inputs
\* The header clean_csv.py writes (SELECTED_COLUMNS): the wish #2 and #3
\* columns carry a trailing space.
SELECTED_COLUMNS ==
    <<S("Enter your Section"),
      S("Username"),
      S("Enter your Name (FN, MI, LN)"),
      S("What is your wish #1? (Priority Wish)"),
      S("Describe your wish #1! (Priority Wish)"),
      Pad(0, "What is your wish #2?", 1),
      Pad(0, "Describe your wish #2!", 1),
      Pad(0, "What is your wish #3?", 1),
      Pad(0, "Describe your wish #3!", 1)>>

\* A header of external input that lacks the contact address column.
NoUsernameHeader ==
    SelectSeq(SELECTED_COLUMNS, LAMBDA c : c # S("Username"))

\* The i-th raw data row of a sheet with all nine cells, in the order of
\* SELECTED_COLUMNS: cells are padded with whitespace, one cell is blank and
\* one is empty.
FullRow(i) ==
    <<Pad(i % (MaxPad + 1), "BSCS 2-1N", 0),
      Pad(0, "user" \o ToString(i) \o "@example.com", MaxPad),
      Pad(MaxPad, "Person " \o ToString(i), i % (MaxPad + 1)),
      Pad(1, "Wish A" \o ToString(i), 1),
      S("first wish"),
      S("Wish B" \o ToString(i)),
      Pad(MaxPad, "", 0),
      S("Wish C" \o ToString(i)),
      S("")>>

\* The same row without its contact address cell.
NoUsernameRow(i) ==
    <<FullRow(i)[1]>> \o SubSeq(FullRow(i), 3, 9)

SheetKinds == {"distinct", "short", "ragged", "blank"}

\* The rows csv.reader yields for a sheet of k data lines:
\*   distinct   the clean header and k different rows
\*   short      no contact column, a blank line, k copies of a row that
\*              stops after the name
\*   ragged     no contact column, rows with one cell more than the header
\*   blank      the clean header and k blank lines
SheetLines(kind, k) ==
    CASE kind = "distinct"  ->
           <<SELECTED_COLUMNS>> \o [i \in 1..k |-> FullRow(i)]
      [] kind = "short"     ->
           <<NoUsernameHeader, <<>> >> \o [i \in 1..k |-> SubSeq(NoUsernameRow(1), 1, 2)]
      [] kind = "ragged"    ->
           <<NoUsernameHeader>> \o [i \in 1..k |-> FullRow(i)]
      [] kind = "blank"     ->
           <<SELECTED_COLUMNS>> \o [i \in 1..k |-> <<>>]

\* The files --csv may name: a missing path, an empty file, and the sheets.
Files ==
    {[exists |-> FALSE, lines |-> <<>>], [exists |-> TRUE, lines |-> <<>>]}
    \cup {[exists |-> TRUE, lines |-> SheetLines(kind, k)] :
             kind \in SheetKinds, k \in 0..MaxRows}

\* The number of records DictReader yields for a file.
RawRecordCount(file) ==
    IF Len(file.lines) = 0 THEN 0
    ELSE Len(SelectSeq(Tail(file.lines), LAMBDA r : r # <<>>))

\* ------------------------------------------------------- random.shuffle
\* The draws of one shuffle of a list of n elements: for each position
\* i = n-1 .. 1 an index j = randbelow(i + 1) in 0..i.
Picks(n) ==
    {p \in [1..(n - 1) -> 0..(n - 1)] : \A i \in 1..(n - 1) : p[i] <= i}

\* x[i], x[j] = x[j], x[i]   (0-based positions of a 1-based sequence)
Swap(x, i, j) ==
    [k \in 1..Len(x) |-> IF k = i + 1 THEN x[j + 1]
                         ELSE IF k = j + 1 THEN x[i + 1]
                         ELSE x[k]]

RECURSIVE ShuffleDown(_, _, _)
\* for i in reversed(range(1, len(x))): swap x[i] with x[picks[i]]
ShuffleDown(x, picks, i) ==
    IF i < 1 THEN x
    ELSE ShuffleDown(Swap(x, i, picks[i]), picks, i - 1)

\* random.shuffle(x) under the draws `picks`
Shuffle(x, picks) == ShuffleDown(x, picks, Len(x) - 1)

\* ---------------------------------------------------- random_derangement
\* range(1000), the retry budget
MaxAttempts == 1000

\* list(range(n))
RangeFromOne(n) == [k \in 1..n |-> k]
Range(n) == [k \in 1..n |-> k - 1]

\* n < 2, the test of line 61
TooFewAllowsOne(n) == n < 1
TooFew(n) == n < 2

\* The for loop of line 65 has run all its iterations.
BudgetSpentLate(a) == a > MaxAttempts
BudgetSpent(a) == a >= MaxAttempts

\* all(i != shuffled[i] for i in range(n))
NoFixedPointAny(shuffled, n) ==
    \E i \in 0..(n - 1) : i # shuffled[i + 1]
NoFixedPoint(shuffled, n) ==
    \A i \in 0..(n - 1) : i # shuffled[i + 1]

\* [(participants[i], participants[shuffled[i]]) for i in range(n)]: each
\* element is a reference to an object of the list, kept as its position.
PairsShort(shuffled, n) ==
    [k \in 1..(n - 1) |-> [giver |-> k - 1, receiver |-> shuffled[k]]]
PairsReversed(shuffled, n) ==
    [k \in 1..n |-> [giver |-> shuffled[k], receiver |-> k - 1]]
Pairs(shuffled, n) ==
    [k \in 1..n |-> [giver |-> k - 1, receiver |-> shuffled[k]]]

InsufficientParticipants ==
    [type |-> "ValueError", msg |-> "Need at least 2 participants for gift exchange"]

DerangementUnattainable ==
    [type |-> "RuntimeError", msg |-> "Failed to generate derangement after 1000 attempts"]

\* ------------------------------------------------------------ rendering
\* build_email_body: the text with its interpolated values.
build_email_body(gifter, receiver) ==
    [hello  |-> gifter.name,
     gift   |-> receiver.name,
     wishes |-> <<receiver.wish1, receiver.wish1_desc,
                  receiver.wish2, receiver.wish2_desc,
                  receiver.wish3, receiver.wish3_desc>>]

\* build_email_html: the page with its interpolated values.
build_email_html(gifter, receiver) ==
    [html   |-> TRUE,
     hello  |-> gifter.name,
     gift   |-> receiver.name,
     wishes |-> <<receiver.wish1, receiver.wish1_desc,
                  receiver.wish2, receiver.wish2_desc,
                  receiver.wish3, receiver.wish3_desc>>]

Subject == "Your Secret Santa Assignment!"

\* ------------------------------------------------------------ the state
VARIABLES
    pc,            \* where main is: "main", "random_derangement", "loop",
                   \* "print", "email", "done", "raised"
    args,          \* the parsed command line
    environ,       \* os.environ["BREVO_API_KEY"], or None
    participants,  \* the directory
    indices,       \* random_derangement's list(range(n))
    shuffled,      \* random_derangement's copy of indices, shuffled
    attempt,       \* completed iterations of the retry loop
    assignments,   \* the list random_derangement returned, or None
    pos,           \* completed iterations of the notification loop
    stdout,        \* what has been printed
    outbox,        \* the emails the delivery service accepted
    exc,           \* the exception that ended main, or None
    rendered,      \* history: the notifications rendered
    draws,         \* history: the permutations drawn
    fixed          \* history: the drawn permutations that had a fixed point

vars ==
    <<pc, args, environ, participants, indices, shuffled, attempt,
      assignments, pos, stdout, outbox, exc, rendered, draws, fixed>>

\* The values of --brevo-api-key and of BREVO_API_KEY.
CliKeys == {None, S("cli-key")}
EnvKeys == {None, S(""), S("env-key")}

\* Where the directory comes from: --dummy, or --csv with a file.
Sources ==
    {[dummy |-> TRUE, csv |-> None]}
    \cup {[dummy |-> FALSE, csv |-> f] : f \in Files}

\* Neither flag, and both flags.
OddSources ==
    {[dummy |-> FALSE, csv |-> None],
     [dummy |-> TRUE, csv |-> [exists |-> FALSE, lines |-> <<>>]]}

\* --dry-run with and without a key in the environment, and sending with
\* every combination of the two places a key can come from.
Options ==
    {[dry_run |-> TRUE, key |-> None, env |-> e] : e \in {None, S("env-key")}}
    \cup {[dry_run |-> FALSE, key |-> k, env |-> e] : k \in CliKeys, e \in EnvKeys}

\* parse_args(): --brevo-api-key defaults to the environment variable.
ParseArgs(src, opt) ==
    [dummy |-> src.dummy, csv |-> src.csv, dry_run |-> opt.dry_run,
     brevo_api_key |-> IF opt.key = None THEN opt.env ELSE opt.key,
     sender_email |-> S("noreply@yourdomain.com"),
     sender_name |-> S("BSCS 2-1N Gift Exchange")]

Init ==
    /\ pc = "main"
    /\ \E opt \in Options :
          \E src \in IF opt.dry_run /\ opt.env = None
                     THEN Sources \cup OddSources ELSE Sources :
             /\ environ = opt.env
             /\ args = ParseArgs(src, opt)
    /\ participants = <<>>
    /\ indices = <<>>
    /\ shuffled = <<>>
    /\ attempt = 0
    /\ assignments = None
    /\ pos = 0
    /\ stdout = <<>>
    /\ outbox = <<>>
    /\ exc = None
    /\ rendered = 0
    /\ draws = 0
    /\ fixed = 0

generation == <<indices, shuffled, attempt, assignments, draws, fixed>>
delivery == <<pos, stdout, outbox, rendered>>

\* main ends with the exception e.
Raised(e) ==
    /\ pc' = "raised"
    /\ exc' = e

\* main, lines 481-488: the directory is built.
BuildDirectory ==
    /\ pc = "main"
    /\ IF args.dummy
       THEN /\ participants' = create_dummy_data
            /\ stdout' = Append(stdout, [line |-> "Using dummy test data"])
            /\ pc' = "random_derangement"
            /\ exc' = exc
       ELSE IF args.csv # None
       THEN LET r == load_participants(args.csv)
            IN  IF r.ok
                THEN /\ participants' = r.value
                     /\ stdout' = Append(stdout, [line |-> "Loaded", count |-> Len(r.value)])
                     /\ pc' = "random_derangement"
                     /\ exc' = exc
                ELSE /\ Raised([type |-> r.error, msg |-> "load_participants"])
                     /\ UNCHANGED <<participants, stdout>>
       ELSE /\ Raised([type |-> "SystemExit", msg |-> "Either --csv or --dummy is required"])
            /\ UNCHANGED <<participants, stdout>>
    /\ UNCHANGED <<args, environ, generation, pos, outbox, rendered>>

\* random_derangement, lines 60-64: the size check and the index list.
EnterDerangement ==
    /\ pc = "random_derangement"
    /\ LET n == Len(participants)
       IN  IF TooFew(n)
           THEN /\ Raised(InsufficientParticipants)
                /\ indices' = indices
           ELSE /\ indices' = Range(n)
                /\ pc' = "loop"
                /\ exc' = exc
    /\ UNCHANGED <<args, environ, participants, shuffled, attempt, assignments,
                   draws, fixed, delivery>>

\* shuffled = indices[:] is a copy: shuffling it to s leaves `indices` alone.
IndicesAliased(s) == s
IndicesAfterShuffle(s) == indices

\* random_derangement, lines 65-69: one iteration of the retry loop.
Attempt ==
    /\ pc = "loop"
    /\ ~BudgetSpent(attempt)
    /\ LET n == Len(participants)
       IN  \E picks \in Picks(n) :
              LET s == Shuffle(indices, picks)
              IN  /\ shuffled' = s
                  /\ indices' = IndicesAfterShuffle(s)
                  /\ draws' = draws + 1
                  /\ fixed' = IF \E i \in 1..n : s[i] = i - 1 THEN fixed + 1 ELSE fixed
                  /\ IF NoFixedPoint(s, n)
                     THEN /\ assignments' = Pairs(s, n)
                          /\ pc' = "print"
                          /\ attempt' = attempt
                     ELSE /\ attempt' = attempt + 1
                          /\ UNCHANGED <<assignments, pc>>
    /\ UNCHANGED <<args, environ, participants, exc, delivery>>

\* random_derangement, line 71: the retry budget is spent.
ExhaustedReturnsLast ==
    /\ pc = "loop"
    /\ BudgetSpent(attempt)
    /\ assignments' = Pairs(shuffled, Len(participants))
    /\ pc' = "print"
    /\ UNCHANGED <<args, environ, participants, indices, shuffled, attempt,
                   draws, fixed, exc, delivery>>
Exhausted ==
    /\ pc = "loop"
    /\ BudgetSpent(attempt)
    /\ Raised(DerangementUnattainable)
    /\ UNCHANGED <<args, environ, participants, generation, delivery>>

\* ------------------------------------------------------------- delivery
\* The participant a reference of an assignment points to.
Deref(ref) == participants[ref + 1]

\* main, lines 492-496: the list of assignments is printed.
PrintAssignments ==
    /\ pc = "print"
    /\ stdout' = stdout
                 \o <<[line |-> "Assignments:"]>>
                 \o [k \in 1..Len(assignments) |->
                       [line |-> "->",
                        gifter |-> Deref(assignments[k].giver).name,
                        receiver |-> Deref(assignments[k].receiver).name]]
                 \o <<[line |-> ""]>>
    /\ pc' = "email"
    /\ UNCHANGED <<args, environ, participants, generation, pos, outbox, exc, rendered>>

\* args.dry_run, the test of line 503
DryRunIgnored == FALSE
DryRun == args.dry_run

\* args.brevo_api_key or os.environ.get("BREVO_API_KEY"), line 509
ApiKey ==
    IF Truthy(args.brevo_api_key) THEN args.brevo_api_key ELSE environ

\* parser.error of line 511
MissingApiKey ==
    [type |-> "SystemExit",
     msg |-> "--brevo-api-key or BREVO_API_KEY env var required for sending emails"]

\* send_email_brevo, lines 428-429: the ApiException of the delivery service
SendFailed == [type |-> "RuntimeError", msg |-> "Failed to send email"]

\* The recipient main passes to send_email_brevo, line 516: gifter.email
RecipientIsReceiver(gifter, receiver) == receiver.email
Recipient(gifter, receiver) == gifter.email

\* The SendSmtpEmail send_email_brevo builds.
SendSmtpEmail(recipient_email, body_text, body_html) ==
    [to |-> recipient_email,
     sender |-> [email |-> args.sender_email, name |-> args.sender_name],
     subject |-> Subject,
     html_content |-> body_html,
     text_content |-> body_text]

\* main, lines 498-521: one iteration of the notification loop. The
\* delivery service accepts the email or answers with an ApiException.
Notify ==
    /\ pc = "email"
    /\ pos < Len(assignments)
    /\ LET gifter    == Deref(assignments[pos + 1].giver)
           receiver  == Deref(assignments[pos + 1].receiver)
           body_text == build_email_body(gifter, receiver)
           body_html == build_email_html(gifter, receiver)
       IN  /\ rendered' = rendered + 1
           /\ IF DryRun
              THEN /\ stdout' = Append(stdout,
                                  [line |-> "=== Email to", email |-> gifter.email,
                                   name |-> gifter.name, body |-> body_text])
                   /\ pos' = pos + 1
                   /\ UNCHANGED <<outbox, pc, exc>>
              ELSE IF ~Truthy(ApiKey)
              THEN /\ Raised(MissingApiKey)
                   /\ UNCHANGED <<stdout, outbox, pos>>
              ELSE \E accepted \in BOOLEAN :
                      IF accepted
                      THEN /\ outbox' = Append(outbox,
                                          [api_key |-> ApiKey,
                                           email |-> SendSmtpEmail(Recipient(gifter, receiver), body_text, body_html)])
                           /\ stdout' = Append(stdout,
                                          [line |-> "Sent email to", email |-> gifter.email])
                           /\ pos' = pos + 1
                           /\ UNCHANGED <<pc, exc>>
                      ELSE /\ Raised(SendFailed)
                           /\ UNCHANGED <<stdout, outbox, pos>>
    /\ UNCHANGED <<args, environ, participants, generation>>

\* main, line 523: every notification is out.
Finish ==
    /\ pc = "email"
    /\ pos >= Len(assignments)
    /\ stdout' = Append(stdout, [line |-> "Done!"])
    /\ pc' = "done"
    /\ UNCHANGED <<args, environ, participants, generation, pos, outbox, exc, rendered>>

Next ==
    \/ BuildDirectory
    \/ EnterDerangement
    \/ Attempt
    \/ Exhausted
    \/ PrintAssignments
    \/ Notify
    \/ Finish

Spec == Init /\ [][Next]_vars

\* ================================================================ claims
\* random_derangement has returned.
Returned == assignments # None

N == Len(participants)

\* C1: every pair random_derangement returns has its giver and its receiver
\* at different directory positions, and the permutation it was built from
\* maps no position to itself; this holds also when participants carry
\* identical field values.
C1_GiverIsNotReceiver ==
    Returned =>
        \A k \in 1..Len(assignments) :
            /\ assignments[k].giver # assignments[k].receiver
            /\ assignments[k].giver \in 0..(N - 1)
            /\ shuffled[assignments[k].giver + 1] # assignments[k].giver

\* A derangement was returned for a directory whose participants are equal
\* field by field, after a rejected attempt.
C1_Witness ==
    /\ Returned
    /\ N >= 2
    /\ participants[1] = participants[2]
    /\ attempt > 0

\* C2: whenever random_derangement returns for n >= 2 participants, the
\* result has exactly n pairs and every directory position is the giver of
\* exactly one pair and the receiver of exactly one pair.
C2_ReceiversPermuteGivers ==
    (Returned /\ N >= 2) =>
        /\ Len(assignments) = N
        /\ \A q \in 0..(N - 1) :
              /\ Cardinality({k \in 1..Len(assignments) : assignments[k].giver = q}) = 1
              /\ Cardinality({k \in 1..Len(assignments) : assignments[k].receiver = q}) = 1

\* A derangement of three participants that is a 3-cycle was returned.
C2_Witness ==
    /\ Returned
    /\ N = 3
    /\ assignments[1].receiver = 2
    /\ pc = "done"

\* C3: called with a directory of 0 or 1 participants, random_derangement
\* raises the error of too few participants in that very step: no
\* permutation is drawn and no assignment is returned.
C3_InsufficientParticipants ==
    [][(pc = "random_derangement" /\ N < 2) =>
           /\ pc' = "raised"
           /\ exc' = InsufficientParticipants
           /\ draws' = 0
           /\ shuffled' = <<>>
           /\ assignments' = None]_vars

\* The call failed for a directory of exactly one participant.
C3_Witness ==
    /\ pc = "raised"
    /\ exc = InsufficientParticipants
    /\ N = 1

\* The call of random_derangement is over (or was never made).
GenerateOver == pc \in {"print", "email", "done", "raised"}

\* C4: for n >= 2 at most 1000 permutations are drawn and the call always
\* ends (inside the retry loop a step is always possible, and every step
\* either leaves the loop or counts one more of at most 1000 attempts); it
\* ends with the error of the spent retry budget exactly when 1000
\* permutations were drawn and each of them had a fixed point, and then no
\* assignment is returned; an assignment that is returned has no fixed point.
C4_BoundedRetry ==
    /\ [](draws <= MaxAttempts /\ attempt <= MaxAttempts)
    /\ [](pc = "loop" => ENABLED (Attempt \/ Exhausted))
    /\ [][pc = "loop" => (pc' # "loop" \/ attempt' = attempt + 1)]_vars
    /\ []((N >= 2 /\ GenerateOver) =>
             /\ (exc = DerangementUnattainable)
                   <=> (draws = MaxAttempts /\ fixed = MaxAttempts)
             /\ exc = DerangementUnattainable => assignments = None
             /\ Returned =>
                   \A k \in 1..Len(assignments) :
                       assignments[k].receiver # k - 1)

\* The retry budget was spent on a directory of three participants.
C4_Witness ==
    /\ exc = DerangementUnattainable
    /\ N = 3
    /\ draws = 1000
    /\ pc = "raised"

\* C5: for a directory of exactly two participants A, B every list that
\* random_derangement returns is [(A, B), (B, A)].
C5_TwoParticipantsSwap ==
    (Returned /\ N = 2) =>
        /\ assignments = <<[giver |-> 0, receiver |-> 1], [giver |-> 1, receiver |-> 0]>>
        /\ <<Deref(assignments[1].giver), Deref(assignments[1].receiver)>>
              = <<participants[1], participants[2]>>
        /\ <<Deref(assignments[2].giver), Deref(assignments[2].receiver)>>
              = <<participants[2], participants[1]>>

\* Two different participants were paired after rejected attempts.
C5_Witness ==
    /\ Returned
    /\ N = 2
    /\ participants[1] # participants[2]
    /\ attempt >= 2

\* C6: random_derangement returns on the first drawn permutation without a
\* fixed point (every earlier draw had one), and the result is the list of
\* pairs (directory[i], directory[permuted[i]]) in directory order; for the
\* three dummy participants and the permutation [1, 2, 0] it is
\* [(first, second), (second, third), (third, first)].
C6_FirstDerangementInOrder ==
    Returned =>
        /\ Len(assignments) = N
        /\ \A k \in 1..N :
              assignments[k] = [giver |-> k - 1, receiver |-> shuffled[k]]
        /\ \A k \in 1..N : shuffled[k] # k - 1
        /\ draws = fixed + 1
        /\ draws = attempt + 1
        /\ (participants = create_dummy_data /\ shuffled = <<1, 2, 0>>) =>
              [k \in 1..3 |-> <<Deref(assignments[k].giver).name.core,
                               Deref(assignments[k].receiver).name.core>>]
                 = << <<"Lorem D. Ipsum", "Ipsum D. Lorem">>,
                      <<"Ipsum D. Lorem", "Luffy D. Lorem">>,
                      <<"Luffy D. Lorem", "Lorem D. Ipsum">> >>

\* The dummy directory was permuted to [second, third, first] after
\* rejected attempts.
C6_Witness ==
    /\ Returned
    /\ participants = create_dummy_data
    /\ shuffled = <<1, 2, 0>>
    /\ attempt >= 2

\* The lines main prints before it calls random_derangement.
Preamble == {"Using dummy test data", "Loaded"}

\* C7: generation is all-or-nothing: the assignment list is either absent or
\* a full derangement of the directory; when random_derangement ends with
\* one of its two errors the error ends main, no assignment exists and no
\* notification was rendered, printed or sent.
C7_AllOrNothing ==
    /\ Returned =>
          /\ Len(assignments) = N
          /\ {assignments[k].giver : k \in 1..Len(assignments)} = 0..(N - 1)
          /\ {assignments[k].receiver : k \in 1..Len(assignments)} = 0..(N - 1)
          /\ \A k \in 1..Len(assignments) :
                assignments[k].giver # assignments[k].receiver
    /\ exc \in {InsufficientParticipants, DerangementUnattainable} =>
          /\ pc = "raised"
          /\ assignments = None
          /\ rendered = 0
          /\ pos = 0
          /\ outbox = <<>>
          /\ \A k \in 1..Len(stdout) : stdout[k].line \in Preamble

\* The retry budget was spent in a run that would have sent emails.
C7_Witness ==
    /\ exc = DerangementUnattainable
    /\ ~args.dry_run
    /\ Truthy(ApiKey)
    /\ pc = "raised"

\* C8: no step of random_derangement changes the directory, whether it
\* rejects a permutation, returns or raises; a shuffle changes only the copy
\* `shuffled`, never the index list it was copied from.
C8_DirectoryUnchanged ==
    [][(pc = "random_derangement" \/ pc = "loop") =>
          (/\ participants' = participants
           /\ pc = "loop" => indices' = indices)]_vars

\* A derangement of the dummy directory was returned after rejected
\* attempts, with the index list still in order.
C8_Witness ==
    /\ Returned
    /\ participants = create_dummy_data
    /\ indices = <<0, 1, 2>>
    /\ attempt >= 2

\* main has built the directory from its source.
DirectoryBuilt ==
    /\ pc # "main"
    /\ args.dummy \/ (args.csv # None /\ args.csv.exists)

\* C9: every participant of the directory main builds has whitespace-trimmed
\* fields, building it from readable input never raises, and a directory
\* read from CSV has one participant per raw record.
C9_NormalizedDirectory ==
    DirectoryBuilt =>
        /\ ~(exc # None /\ exc.msg = "load_participants")
        /\ \A i \in 1..N : \A f \in 1..Len(Fields) :
              participants[i][Fields[f]] = Strip(participants[i][Fields[f]])
        /\ ~args.dummy => N = RawRecordCount(args.csv)

\* The printed notifications.
PrintedEmails == SelectSeq(stdout, LAMBDA l : l.line = "=== Email to")

\* C10: with --dry-run no email is ever sent and main never stops for a
\* missing API key; the notifications printed so far are those of the first
\* `pos` assignments in order, each to its giver about its receiver, and
\* when main is done there is one for every assignment.
C10_DryRunSendsNothing ==
    args.dry_run =>
        /\ outbox = <<>>
        /\ exc # MissingApiKey
        /\ Len(PrintedEmails) = pos
        /\ \A k \in 1..Len(PrintedEmails) :
              /\ PrintedEmails[k].email = Deref(assignments[k].giver).email
              /\ PrintedEmails[k].name = Deref(assignments[k].giver).name
              /\ PrintedEmails[k].body.gift = Deref(assignments[k].receiver).name
        /\ pc = "done" => pos = Len(assignments)

\* A dry run without any API key printed all three notifications.
C10_Witness ==
    /\ args.dry_run
    /\ ~Truthy(ApiKey)
    /\ pc = "done"
    /\ pos = 3

\* The interpolated values of the notification of the k-th assignment.
NotificationOf(k) ==
    LET g == Deref(assignments[k].giver)
        r == Deref(assignments[k].receiver)
    IN  [hello  |-> g.name,
         gift   |-> r.name,
         wishes |-> <<r.wish1, r.wish1_desc, r.wish2, r.wish2_desc,
                      r.wish3, r.wish3_desc>>]

\* C11: when main sends, the emails accepted so far are at every point those
\* of the first `pos` assignments in assignment order, each addressed to its
\* giver's contact address and telling that giver's receiver, and no giver
\* has two of them; when main is done every giver has exactly one; without
\* an API key none is sent; when the k-th send fails main ends with exactly
\* the first k-1 emails sent, and after an exception no further step is
\* taken (no later send, no retry).
C11_SentIsPrefixOfAssignments ==
    /\ [](~args.dry_run =>
            /\ ~Returned => outbox = <<>>
            /\ Returned =>
                  /\ Len(outbox) = pos
                  /\ pos <= Len(assignments)
                  /\ \A k \in 1..Len(outbox) :
                        /\ outbox[k].email.to = Deref(assignments[k].giver).email
                        /\ outbox[k].email.text_content = NotificationOf(k)
                        /\ outbox[k].email.html_content.gift
                              = Deref(assignments[k].receiver).name
                        /\ outbox[k].api_key = ApiKey
                  /\ \A j, k \in 1..Len(outbox) :
                        j # k => assignments[j].giver # assignments[k].giver
            /\ pc = "done" => Len(outbox) = N
            /\ ~Truthy(ApiKey) => outbox = <<>>
            /\ exc = MissingApiKey => (pc = "raised" /\ outbox = <<>>)
            /\ exc = SendFailed =>
                  /\ pc = "raised"
                  /\ rendered >= 1
                  /\ Len(outbox) = rendered - 1
                  /\ pos = rendered - 1)
    /\ [][exc = None]_vars

\* The second of three sends failed: one email is out, to the first giver.
C11_Witness ==
    /\ ~args.dry_run
    /\ exc = SendFailed
    /\ N = 3
    /\ Len(outbox) = 1
    /\ outbox[1].email.to # Deref(assignments[1].receiver).email

====
